---- MODULE Spec2Model ----
(***************************************************************************)
(* Model of world_models/data/loaders.py: RolloutSequenceDataset (Mode A)  *)
(* and RolloutObservationDataset (Mode B).                                 *)
(*                                                                         *)
(* A tensor with two leading dimensions is a record                        *)
(*   [shape |-> <<d0, d1>>, data |-> [0..d0-1 -> [0..d1-1 -> element]]]    *)
(* The trailing per-timestep dimensions of a Mode A field are carried by   *)
(* the element, which is the coordinate <<key, t, e>> the value had in the *)
(* file (timestep t, environment e), so every slice shows its origin.      *)
(* In Mode B the obs field keeps all of its elements: its flat memory is a *)
(* sequence of coordinates <<t, e, k>>.                                    *)
(***************************************************************************)
EXTENDS Integers, Sequences, FiniteSets, TLC

VARIABLES pc, mode, file, buffer, seq_len, train, seq_num, err, ret

vars == <<pc, mode, file, buffer, seq_len, train, seq_num, err, ret>>

\* ------------------------------------------------------------------ bounds
MaxE == 5
MaxT == 3
MaxTB == 3
MaxEB == 3
IdxSlack == 2

\* ------------------------------------------------------- program constants
FrameDim == 60

Fields == <<"obs", "action", "reward", "done", "next_obs">>

FieldSet == {Fields[k] : k \in 1..Len(Fields)}

None == [kind |-> "none"]

NoRet == [op |-> "none"]

Min(a, b) == IF a < b THEN a ELSE b

Max(a, b) == IF a > b THEN a ELSE b

\* ------------------------------------------------------- tensor operations
\* the tensor pickle.load yields for `key`: shape (timesteps, envs, ...)
FileTensor(key, shape) ==
  [shape |-> shape,
   data  |-> [t \in 0..shape[1]-1 |-> [e \in 0..shape[2]-1 |-> <<key, t, e>>]]]

\* x.transpose(0, 1).contiguous()
Transpose(x) ==
  [shape |-> <<x.shape[2], x.shape[1]>>,
   data  |-> [i \in 0..x.shape[2]-1 |-> [j \in 0..x.shape[1]-1 |-> x.data[j][i]]]]

\* x[:k] for k >= 0 (a slice is clamped to the dimension)
SliceTo(x, k) ==
  LET n == Min(k, x.shape[1])
  IN  [shape |-> <<n, x.shape[2]>>, data |-> [i \in 0..n-1 |-> x.data[i]]]

\* x[k:] for k >= 0 (a slice is clamped to the dimension)
SliceFrom(x, k) ==
  LET s == Min(k, x.shape[1])
      n == x.shape[1] - s
  IN  [shape |-> <<n, x.shape[2]>>, data |-> [i \in 0..n-1 |-> x.data[s + i]]]

\* int(0.8 * n): the double 0.8 is just above 4/5, so the product truncates
\* to floor(4n/5) for every n a buffer can have
SplitIndexBug(n) == (8 * n + 9) \div 10

SplitIndex(n) == (8 * n) \div 10

\* an integer index into a dimension of size n: negative indices count from
\* the end, anything outside [-n, n) is an IndexError (-1 here)
NormIndexBug(idx, n) == IF 0 <= idx /\ idx < n THEN idx ELSE -1

NormIndex(idx, n) ==
  IF 0 <= idx /\ idx < n THEN idx
  ELSE IF -n <= idx /\ idx < 0 THEN idx + n
  ELSE -1

\* row[a:b] for 0 <= a <= b on a dimension of size n, as a sequence; the
\* bounds are clamped to n, so the result may be shorter than b - a
SliceRowBug(row, n, a, b) ==
  LET lo == Min(a, n)
      hi == Min(b - 1, n)
  IN  [j \in 1..Max(hi - lo, 0) |-> row[lo + j - 1]]

SliceRow(row, n, a, b) ==
  LET lo == Min(a, n)
      hi == Min(b, n)
  IN  [j \in 1..Max(hi - lo, 0) |-> row[lo + j - 1]]

\* x[idx1, a:b, ...]
IndexSlice(x, idx1, a, b) ==
  LET e == NormIndex(idx1, x.shape[1])
  IN  IF e = -1 THEN [kind |-> "IndexError"]
      ELSE [kind |-> "ok", val |-> SliceRow(x.data[e], x.shape[2], a, b)]

\* ------------------------------------------------------------ Mode A
\* self.seq_num
SeqNumBug(T, sl) == T \div sl

SeqNum(T, sl) == T - sl + 1

\* i // seq_num, i % seq_num (floor division, seq_num > 0)
DecomposeBug(i, W) == <<i \div W, i % Max(W - 1, 1)>>

Decompose(i, W) == <<i \div W, i % W>>

\* the keys __init__ looks up by name: line 48 reads only obs
ConstructKeysOkBug(f) == FieldSet \subseteq DOMAIN f

ConstructKeysOk(f) == "obs" \in DOMAIN f

\* lines 46-52: every key present is transposed and cut at split_idx, which
\* comes from the transposed obs field
SplitBuffer(f, tr) ==
  LET b == [key \in DOMAIN f |-> Transpose(FileTensor(key, f[key]))]
      split_idx == SplitIndex(b["obs"].shape[1])
  IN  IF tr THEN [key \in DOMAIN b |-> SliceTo(b[key], split_idx)]
      ELSE [key \in DOMAIN b |-> SliceFrom(b[key], split_idx)]

\* RolloutSequenceDataset.__len__
LenA(buf, W) == W * buf["obs"].shape[1]

\* the five slices of __getitem__, evaluated left to right; the first
\* failure is the outcome
RECURSIVE GetFields(_, _, _, _, _, _)
GetFields(buf, idx1, idx2, sl, k, acc) ==
  IF k > Len(Fields) THEN [kind |-> "tuple", val |-> acc]
  ELSE IF Fields[k] \notin DOMAIN buf THEN [kind |-> "KeyError"]
  ELSE LET s == IndexSlice(buf[Fields[k]], idx1, idx2, idx2 + sl)
       IN  IF s.kind # "ok" THEN [kind |-> s.kind]
           ELSE GetFields(buf, idx1, idx2, sl, k + 1, Append(acc, s.val))

\* RolloutSequenceDataset.__getitem__
GetItemAOut(buf, W, sl, i) ==
  IF W = 0 THEN [kind |-> "ZeroDivisionError"]
  ELSE LET d == Decompose(i, W)
       IN  GetFields(buf, d[1], d[2], sl, 1, <<>>)

\* ------------------------------------------------------------ Mode B
\* number of elements of a tensor of shape <<T, E, D>>
Numel(shape) == shape[1] * shape[2] * shape[3]

\* the coordinate <<t, e, k>> stored at offset j of the contiguous obs
\* tensor pickle.load yields
Unravel(shape, j) ==
  <<j \div (shape[2] * shape[3]), (j \div shape[3]) % shape[2], j % shape[3]>>

\* x.view(-1, 60) succeeds when the element count is a multiple of 60
ViewOkBug(shape) == Numel(shape) >= FrameDim

ViewOk(shape) == Numel(shape) % FrameDim = 0

\* x.view(-1, 60): row r is the 60 consecutive elements from offset 60 * r
View(shape) ==
  LET rows == Numel(shape) \div FrameDim
  IN  [shape |-> <<rows, FrameDim>>,
       data  |-> [r \in 0..rows-1 |->
                    [k \in 0..FrameDim-1 |-> Unravel(shape, r * FrameDim + k)]]]

\* lines 97-101
SplitRowsBug(m, tr) ==
  LET split_pos == SplitIndex(m.shape[1])
  IN  IF tr THEN SliceTo(m, split_pos) ELSE SliceFrom(m, split_pos + 1)

SplitRows(m, tr) ==
  LET split_pos == SplitIndex(m.shape[1])
  IN  IF tr THEN SliceTo(m, split_pos) ELSE SliceFrom(m, split_pos)

\* RolloutObservationDataset.__len__
LenB(buf) == buf.shape[1]

\* RolloutObservationDataset.__getitem__: self.buffer[i]
GetItemBOut(buf, i) ==
  LET r == NormIndex(i, buf.shape[1])
  IN  IF r = -1 THEN [kind |-> "IndexError"]
      ELSE [kind |-> "row", val |-> [k \in 1..buf.shape[2] |-> buf.data[r][k - 1]]]

\* ------------------------------------------------------------ inputs
\* files whose five fields share (timesteps, envs)
UniformFile(T, E) == [key \in FieldSet |-> <<T, E>>]

\* one field with its own dimensions
SkewFile(T, E, key, T2, E2) == [UniformFile(T, E) EXCEPT ![key] = <<T2, E2>>]

\* one field absent
PartialFile(T, E, key) == [k \in FieldSet \ {key} |-> <<T, E>>]

FilesA ==
  {UniformFile(T, E) : T \in 1..MaxT, E \in 0..MaxE}
  \cup {UniformFile(20, 10)}
  \cup {SkewFile(3, 5, key, T2, 5) : key \in FieldSet \ {"obs"}, T2 \in {1, 2}}
  \cup {SkewFile(3, 5, key, 3, E2) : key \in FieldSet \ {"obs"}, E2 \in {2, 4}}
  \cup {PartialFile(T, 5, key) : T \in {1, 2}, key \in FieldSet}

SeqLens(f) ==
  IF "obs" \in DOMAIN f
  THEN IF f["obs"][1] > MaxT THEN {5} ELSE 1..(f["obs"][1] + 1)
  ELSE {1}

Uniform(f) == DOMAIN f = FieldSet /\ \A k \in FieldSet : f[k] = f["obs"]

\* obs shapes (timesteps, envs, elements per observation) of Mode B files
ShapesB ==
  {<<T, E, D>> : T \in 0..MaxTB, E \in 1..MaxEB, D \in {FrameDim, FrameDim \div 2, FrameDim + 1}}
  \cup {<<10, 10, FrameDim>>, <<5, 2, FrameDim>>, <<1, 1, 601>>}

FilesB == {[key \in {"obs"} |-> sh] : sh \in ShapesB}

\* ------------------------------------------------------------ actions
Init ==
  /\ pc = "start"
  /\ mode = "none"
  /\ file = None
  /\ buffer = None
  /\ seq_len = 0
  /\ train = TRUE
  /\ seq_num = 0
  /\ err = "none"
  /\ ret = NoRet

\* RolloutSequenceDataset.__init__ on a file that has the keys it looks up
ConstructA ==
  /\ pc = "start"
  /\ \E f \in FilesA, tr \in BOOLEAN :
       /\ ConstructKeysOk(f)
       /\ \E sl \in SeqLens(f) :
            /\ file' = f
            /\ buffer' = SplitBuffer(f, tr)
            /\ seq_len' = sl
            /\ train' = tr
            /\ seq_num' = SeqNum(buffer'["obs"].shape[2], sl)
  /\ mode' = "A"
  /\ pc' = "ready"
  /\ UNCHANGED <<err, ret>>

\* RolloutSequenceDataset.__init__ when the lookup of line 48 raises
ConstructAKeyError ==
  /\ pc = "start"
  /\ \E f \in FilesA :
       /\ ~ConstructKeysOk(f)
       /\ file' = f
  /\ mode' = "A"
  /\ pc' = "failed"
  /\ err' = "KeyError"
  /\ UNCHANGED <<buffer, seq_len, train, seq_num, ret>>

LenACall ==
  /\ pc = "ready" /\ mode = "A"
  /\ ret' = [op |-> "len", out |-> LenA(buffer, seq_num)]
  /\ UNCHANGED <<pc, mode, file, buffer, seq_len, train, seq_num, err>>

GetItemA ==
  /\ pc = "ready" /\ mode = "A"
  /\ \E i \in -(LenA(buffer, seq_num) + IdxSlack)..(LenA(buffer, seq_num) + IdxSlack) :
       ret' = [op |-> "get", i |-> i, out |-> GetItemAOut(buffer, seq_num, seq_len, i)]
  /\ UNCHANGED <<pc, mode, file, buffer, seq_len, train, seq_num, err>>

\* RolloutObservationDataset.__init__ when the view succeeds
ConstructB ==
  /\ pc = "start"
  /\ \E f \in FilesB, tr \in BOOLEAN :
       /\ ViewOk(f["obs"])
       /\ file' = f
       /\ buffer' = SplitRows(View(f["obs"]), tr)
       /\ train' = tr
  /\ mode' = "B"
  /\ pc' = "ready"
  /\ UNCHANGED <<seq_len, seq_num, err, ret>>

\* RolloutObservationDataset.__init__ when line 95 raises
ConstructBShapeError ==
  /\ pc = "start"
  /\ \E f \in FilesB :
       /\ ~ViewOk(f["obs"])
       /\ file' = f
  /\ mode' = "B"
  /\ pc' = "failed"
  /\ err' = "ShapeError"
  /\ UNCHANGED <<buffer, seq_len, train, seq_num, ret>>

LenBCall ==
  /\ pc = "ready" /\ mode = "B"
  /\ ret' = [op |-> "len", out |-> LenB(buffer)]
  /\ UNCHANGED <<pc, mode, file, buffer, seq_len, train, seq_num, err>>

GetItemB ==
  /\ pc = "ready" /\ mode = "B"
  /\ \E i \in -(LenB(buffer) + IdxSlack)..(LenB(buffer) + IdxSlack) :
       ret' = [op |-> "get", i |-> i, out |-> GetItemBOut(buffer, i)]
  /\ UNCHANGED <<pc, mode, file, buffer, seq_len, train, seq_num, err>>

Next ==
  \/ ConstructA
  \/ ConstructAKeyError
  \/ LenACall
  \/ GetItemA
  \/ ConstructB
  \/ ConstructBShapeError
  \/ LenBCall
  \/ GetItemB

Spec == Init /\ [][Next]_vars

\* ------------------------------------------------------------ properties
ReadyA == pc = "ready" /\ mode = "A"

ReadyB == pc = "ready" /\ mode = "B"

\* Mode A on a file whose five fields share their dimensions, seq_len <= T
WellFormedA == ReadyA /\ Uniform(file) /\ seq_len <= file["obs"][1]

\* floor(0.8 * n) in exact arithmetic
Floor80(n) == (4 * n) \div 5

\* episodes of the file (Mode A) that precede the provider's first episode
FirstEpisode == IF train THEN 0 ELSE Floor80(file["obs"][2])

\* episodes of the file (Mode A) the provider's split holds
EpisodesInSplit ==
  IF train THEN Floor80(file["obs"][2])
  ELSE file["obs"][2] - Floor80(file["obs"][2])

\* rows of the unsplit Mode B matrix
RowsB == Numel(file["obs"]) \div FrameDim

FirstRow == IF train THEN 0 ELSE Floor80(RowsB)

RowsInSplit == IF train THEN Floor80(RowsB) ELSE RowsB - Floor80(RowsB)

\* the episodes of the file a Mode A buffer holds for `key`
EpisodesOf(buf, key) ==
  {buf[key].data[j][0][3] : j \in 0..buf[key].shape[1]-1}

\* C1: in Mode A with 1 <= seq_len <= T, __len__ returns
\* (T - seq_len + 1) * (episodes in the selected split), for train and test;
\* 10 episodes of 20 timesteps with seq_len 5 give 128 (train) and 32 (test)
C1_SizeIsWindowsTimesEpisodes ==
  (WellFormedA /\ ret.op = "len") =>
     /\ ret.out = (file["obs"][1] - seq_len + 1) * EpisodesInSplit
     /\ (file["obs"] = <<20, 10>> /\ seq_len = 5) =>
           ret.out = IF train THEN 128 ELSE 32

C1_Witness ==
  /\ WellFormedA /\ ret.op = "len"
  /\ file["obs"] = <<20, 10>> /\ seq_len = 5 /\ ~train /\ ret.out = 32

\* C2: in Mode A the split index is floor(0.8 * E) of the unsplit episode
\* count; the train provider holds episodes [0, split) and the test provider
\* episodes [split, E) of every field, cut at the same index, so the two
\* episode sets are disjoint and their sizes add up to E
C2_SplitPartitionsEpisodes ==
  (ReadyA /\ Uniform(file)) =>
     LET T == file["obs"][1]
         E == file["obs"][2]
         other == SplitBuffer(file, ~train)
     IN  \A key \in FieldSet :
           /\ buffer[key].shape = <<EpisodesInSplit, T>>
           /\ \A j \in 0..EpisodesInSplit-1, t \in 0..T-1 :
                buffer[key].data[j][t] = <<key, t, FirstEpisode + j>>
           /\ EpisodesOf(buffer, key) =
                 IF train THEN 0..Floor80(E)-1 ELSE Floor80(E)..E-1
           /\ EpisodesOf(buffer, key) \cap EpisodesOf(other, key) = {}
           /\ EpisodesOf(buffer, key) \cup EpisodesOf(other, key) = 0..E-1
           /\ buffer[key].shape[1] + other[key].shape[1] = E

C2_Witness ==
  /\ ReadyA /\ Uniform(file) /\ ~train
  /\ file["obs"][2] = 4
  /\ EpisodesOf(buffer, "next_obs") = {3}

\* C3: in Mode A with 1 <= seq_len <= T and uniform fields, Get(i) for
\* 0 <= i < Size() returns five slices of leading dimension seq_len, all from
\* episode i div W and timesteps [i mod W, i mod W + seq_len) within the
\* episode, W = T - seq_len + 1
C3_WindowsAreFullAndAligned ==
  (WellFormedA /\ ret.op = "get" /\ 0 <= ret.i
      /\ ret.i < (file["obs"][1] - seq_len + 1) * EpisodesInSplit) =>
     LET W == file["obs"][1] - seq_len + 1
         episode == ret.i \div W
         start == ret.i % W
     IN  /\ ret.out.kind = "tuple"
         /\ Len(ret.out.val) = 5
         /\ start + seq_len <= file["obs"][1]
         /\ \A k \in 1..5 :
              /\ Len(ret.out.val[k]) = seq_len
              /\ \A j \in 1..seq_len :
                   ret.out.val[k][j] = <<Fields[k], start + j - 1, FirstEpisode + episode>>

C3_Witness ==
  /\ WellFormedA /\ ret.op = "get" /\ ret.out.kind = "tuple"
  /\ seq_len = 2 /\ file["obs"] = <<3, 5>> /\ train /\ ret.i = 7
  /\ ret.out.val[5] = << <<"next_obs", 1, 3>>, <<"next_obs", 2, 3>> >>

\* C4: in Mode A with 1 <= seq_len <= T, i -> (i div W, i mod W) is a
\* bijection from [0, Size()) onto the pairs (episode, start) with
\* 0 <= episode < episodes in split and 0 <= start < W
C4_DecomposeIsBijection ==
  WellFormedA =>
     LET n == LenA(buffer, seq_num)
         Pairs == (0..buffer["obs"].shape[1]-1) \X (0..seq_num-1)
         Image == {Decompose(i, seq_num) : i \in 0..n-1}
     IN  /\ Image = Pairs
         /\ Cardinality(Image) = n
         /\ (ret.op = "get" /\ 0 <= ret.i /\ ret.i < n) =>
               /\ Decompose(ret.i, seq_num) \in Pairs
               /\ \A j \in 0..n-1 :
                    Decompose(j, seq_num) = Decompose(ret.i, seq_num) => j = ret.i

C4_Witness ==
  /\ WellFormedA /\ ret.op = "get" /\ ret.out.kind = "tuple"
  /\ seq_num = 2 /\ buffer["obs"].shape[1] = 3 /\ ret.i = 5
  /\ ret.out.val[1][1] = <<"obs", 1, FirstEpisode + 2>>

\* Size() of the provider in the current state
Size == IF mode = "A" THEN LenA(buffer, seq_num) ELSE LenB(buffer)

\* the providers C5 is about: Mode B, and Mode A within its documented inputs
IndexableProvider == ReadyB \/ WellFormedA

\* C5 as stated: Get(i) with i outside [0, Size()), negative i included,
\* fails with an index error
C5_Original ==
  (IndexableProvider /\ ret.op = "get" /\ (ret.i < 0 \/ ret.i >= Size)) =>
     ret.out.kind = "IndexError"

\* C5 (amended): Get(i) fails with an index error exactly when i >= Size()
\* or i < -Size(); for -Size() <= i < 0 it returns the window (Mode A) or
\* row (Mode B) of index i + Size()
C5_IndexErrorOutsideSignedRange ==
  (IndexableProvider /\ ret.op = "get") =>
     /\ ret.out.kind = "IndexError" <=> (ret.i >= Size \/ ret.i < -Size)
     /\ (-Size <= ret.i /\ ret.i < 0) =>
           /\ ret.out.kind = IF mode = "A" THEN "tuple" ELSE "row"
           /\ ret.out = IF mode = "A"
                        THEN GetItemAOut(buffer, seq_num, seq_len, ret.i + Size)
                        ELSE GetItemBOut(buffer, ret.i + Size)

C5_Witness ==
  /\ WellFormedA /\ ret.op = "get" /\ ret.i = -1
  /\ file["obs"] = <<3, 5>> /\ seq_len = 2 /\ train
  /\ ret.out.kind = "tuple"
  /\ ret.out.val[1] = << <<"obs", 1, 3>>, <<"obs", 2, 3>> >>

\* C6: in Mode B with N unsplit rows and p = floor(0.8 * N), the train
\* provider has Size() = p and Get(i) = unsplit row i; the test provider has
\* Size() = N - p and Get(i) = unsplit row p + i; N = 100 gives 80 and 20
C6_ModeBSplitRows ==
  ReadyB =>
     /\ LenB(buffer) = RowsInSplit
     /\ ret.op = "len" => ret.out = RowsInSplit
     /\ RowsB = 100 => RowsInSplit = IF train THEN 80 ELSE 20
     /\ (ret.op = "get" /\ 0 <= ret.i /\ ret.i < RowsInSplit) =>
           /\ ret.out.kind = "row"
           /\ Len(ret.out.val) = FrameDim
           /\ \A k \in 1..FrameDim :
                ret.out.val[k] = View(file["obs"]).data[FirstRow + ret.i][k - 1]

C6_Witness ==
  /\ ReadyB /\ ~train /\ file["obs"] = <<10, 10, FrameDim>>
  /\ ret.op = "get" /\ ret.i = 0 /\ ret.out.kind = "row"
  /\ ret.out.val[1] = <<8, 0, 0>>

\* C7: Mode B construction succeeds exactly when the element count n of obs
\* is divisible by 60, and the unsplit matrix then has n / 60 rows of width
\* 60; otherwise it fails with a shape error and there is no provider
C7_ViewNeedsMultipleOf60 ==
  mode = "B" =>
     LET n == Numel(file["obs"])
     IN  /\ pc = "ready" <=> n % 60 = 0
         /\ pc = "failed" <=> n % 60 # 0
         /\ pc = "failed" => (err = "ShapeError" /\ buffer = None)
         /\ pc = "ready" =>
              /\ err = "none"
              /\ buffer.shape[2] = 60
              /\ buffer.shape[1] + SplitRows(View(file["obs"]), ~train).shape[1] = n \div 60
         /\ (n = 600 /\ train) => buffer.shape = <<8, 60>>
         /\ n = 601 => pc = "failed"

C7_Witness ==
  /\ mode = "B" /\ pc = "failed" /\ err = "ShapeError"
  /\ Numel(file["obs"]) = 601

\* C8 as stated: when the fields of a Mode A file do not share their
\* dimensions, Get never returns a tuple in which some slice has a leading
\* dimension other than seq_len
C8_NoTruncatedSlice ==
  (ReadyA /\ DOMAIN file = FieldSet /\ ~Uniform(file)
      /\ seq_len <= file["obs"][1] /\ ret.op = "get" /\ ret.out.kind = "tuple") =>
     \A k \in 1..5 : Len(ret.out.val[k]) = seq_len

\* C9 as stated: a Mode A file lacking any one of the five fields makes
\* Construct fail with a key error
C9_Original ==
  (mode = "A" /\ DOMAIN file # FieldSet) => (pc = "failed" /\ err = "KeyError")

\* C9 (amended): a file lacking obs makes Construct fail with a key error and
\* leaves no provider; a file lacking one of the other four fields (the rest
\* sharing their dimensions) constructs, Size() succeeds, and the missing
\* field is detected only by Get(i): a key error for every index in range,
\* and never a tuple
C9_MissingKeyDetection ==
  (mode = "A" /\ DOMAIN file # FieldSet) =>
     IF "obs" \notin DOMAIN file
     THEN pc = "failed" /\ err = "KeyError" /\ buffer = None /\ ret = NoRet
     ELSE /\ pc = "ready" /\ err = "none"
          /\ ret.op = "len" => ret.out = seq_num * buffer["obs"].shape[1]
          /\ ret.op = "get" =>
               /\ ret.out.kind # "tuple"
               /\ (seq_num > 0 /\ -Size <= ret.i /\ ret.i < Size) =>
                     ret.out.kind = "KeyError"

C9_Witness ==
  /\ ReadyA /\ "reward" \notin DOMAIN file
  /\ ret.op = "get" /\ ret.i = 0 /\ ret.out.kind = "KeyError"

\* C10 as stated: row r of the unsplit Mode B matrix is the observation of
\* episode r div T at timestep r mod T of a (T, E, 60) file buffer
C10_RowsAreEpisodeMajor ==
  (ReadyB /\ file["obs"][3] = FrameDim /\ ret.op = "get" /\ ret.out.kind = "row"
      /\ 0 <= ret.i /\ ret.i < RowsInSplit) =>
     LET r == FirstRow + ret.i
         T == file["obs"][1]
     IN  \A k \in 1..FrameDim : ret.out.val[k] = <<r % T, r \div T, k - 1>>
====
